---- MODULE Spec2Model ----
(***************************************************************************)
(* The contact book: ContactsCollection (src/source/models.ts), the        *)
(* ContactsController dispatcher (src/unnamed/part_000) and the CLI entry  *)
(* main() (src/source/index.ts).                                           *)
(*                                                                         *)
(* Contact objects live in a heap and the collection is an array of        *)
(* references, as in JavaScript: an array copy shares its elements.        *)
(* JavaScript values that are not plain integers (NaN, null, undefined)    *)
(* are tagged records, compared with the language's own rules.             *)
(***************************************************************************)
EXTENDS Integers, Sequences, FiniteSets, TLC

\* Longest in-memory sequence explored.
MaxLen == 2

\* Largest id a record may carry in the explored states.
IdCap == MaxLen

---------------------------------------------------------------------------
\* JavaScript values

Num(n) == [t |-> "num", v |-> n]
NaN == [t |-> "nan", v |-> 0]
Null == [t |-> "null", v |-> 0]
Undefined == [t |-> "undef", v |-> 0]

\* a === b
StrictEq(a, b) == a.t = b.t /\ a.t # "nan" /\ a.v = b.v

\* !a
Falsy(a) == a.t \in {"nan", "null", "undef"} \/ (a.t = "num" /\ a.v = 0)

\* Number(a), the coercion Math.max applies to its arguments
ToNumber(a) == IF a.t = "num" THEN a ELSE IF a.t = "null" THEN Num(0) ELSE NaN

\* Math.max(a, b)
MathMax(a, b) ==
    LET x == ToNumber(a)
        y == ToNumber(b)
    IN  IF x.t = "nan" \/ y.t = "nan" THEN NaN
        ELSE IF x.v >= y.v THEN x ELSE y

\* a + 1 on a number
PlusOne(a) == IF a.t = "nan" THEN NaN ELSE Num(a.v + 1)

\* typeof a === "number"
IsNumberType(a) == a.t \in {"num", "nan"}

\* isNaN(a) on a value of type number
IsNaN(a) == a.t = "nan"

\* Strings are sequences of characters.
Str(s) == [t |-> "str", s |-> s]
NoString == [t |-> "undef", s |-> <<>>]
NumberForString == [t |-> "num", s |-> <<>>]

\* The action tag of a request, or none.
Action(a) == [t |-> "str", s |-> a]
NoAction == [t |-> "undef", s |-> ""]

\* A command-line value that is text, not a number.
Text == [t |-> "text", v |-> 0]
Alice == <<"A">>
Bob == <<"B">>
Blank == <<" ", " ">>
Empty == <<>>
IsWhitespace(ch) == ch = " "

\* s.trim()
RECURSIVE TrimLeft(_)
TrimLeft(s) == IF s # <<>> /\ IsWhitespace(Head(s)) THEN TrimLeft(Tail(s)) ELSE s
RECURSIVE TrimRight(_)
TrimRight(s) ==
    IF s # <<>> /\ IsWhitespace(s[Len(s)]) THEN TrimRight(SubSeq(s, 1, Len(s) - 1)) ELSE s
Trim(s) == TrimRight(TrimLeft(s))

---------------------------------------------------------------------------
\* State

VARIABLES
    contacts,   \* ContactsCollection.contacts: array of references to Contact objects
    heap,       \* the Contact objects that are still referenced
    file,       \* contacts.json: absent, unreadable, a JSON value that is no array, or an array
    view,       \* an array a caller got from getAllContacts() and kept
    state,      \* the store's state: "Unloaded" until a load() succeeds, then "Loaded"
    main,       \* position of main() in the CLI flow
    last,       \* the last call: its arguments, outcome, returned value and the calls it made
    prev        \* the call before the last one, in the runs that keep it

vars == <<contacts, heap, file, view, state, main, last, prev>>

\* class Contact
Contact(id, name) == [id |-> id, name |-> name]

\* the records a reference array denotes
Deref(h, refs) == [i \in 1..Len(refs) |-> h[refs[i]]]
Records == Deref(heap, contacts)

Range(s) == {s[i] : i \in 1..Len(s)}

\* the k-th smallest reference not in use
NthFree(used, k) ==
    CHOOSE r \in 1..(Cardinality(used) + k) :
        r \notin used /\ Cardinality({x \in 1..r : x \notin used}) = k

\* the distinct elements of a sequence, in the order of their first occurrence
RECURSIVE Distinct(_)
Distinct(s) ==
    IF s = <<>> THEN <<>>
    ELSE LET d == Distinct(SubSeq(s, 1, Len(s) - 1))
         IN  IF s[Len(s)] \in Range(d) THEN d ELSE Append(d, s[Len(s)])

Rank(order, r) == CHOOSE i \in 1..Len(order) : order[i] = r
Renumber(order, refs) == [i \in 1..Len(refs) |-> Rank(order, refs[i])]

---------------------------------------------------------------------------
\* The backing file

Absent == [kind |-> "absent", items |-> <<>>]
Corrupt == [kind |-> "corrupt", items |-> <<>>]
NotArray == [kind |-> "value", items |-> <<>>]
ArrayFile(items) == [kind |-> "array", items |-> items]

\* JSON.stringify of a number: NaN is written as null
JsonNumber(a) == IF a.t = "nan" THEN Null ELSE a

\* JSON.stringify(this.contacts): one object per record, in order
Stringify(records) ==
    [i \in 1..Len(records) |-> [id |-> JsonNumber(records[i].id), name |-> records[i].name]]

\* data.map(item => new Contact(item.id, item.name))
Parse(items) == [i \in 1..Len(items) |-> Contact(items[i].id, items[i].name)]

\* outcomes of jsonfile.writeFile: written in full; failed before the file was opened;
\* failed after the file was truncated
WriteOutcomes == {"ok", "failed", "truncated"}

FileAfterWrite(outcome, old, records) ==
    CASE outcome = "ok" -> ArrayFile(Stringify(records))
      [] outcome = "failed" -> old
      [] outcome = "truncated" -> Corrupt

\* save(): the promise resolves or rejects with the write error
SaveResult(outcome) == IF outcome = "ok" THEN "ok" ELSE "IOFailure"

---------------------------------------------------------------------------
\* Pure parts of the store's methods

\* this.contacts.reduce((max, contact) => Math.max(max, contact.id), 0) + 1
RECURSIVE ReduceMax(_, _)
ReduceMax(records, max) ==
    IF records = <<>> THEN max
    ELSE ReduceMax(Tail(records), MathMax(max, Head(records).id))

\* a faulty id generator: one more than the number of records
generateNewIdByLength(records) == Num(Len(records) + 1)

generateNewId(records) == PlusOne(ReduceMax(records, Num(0)))

\* this.contacts.some(c => c.id === id)
SomeId(records, id) == \E i \in 1..Len(records) : StrictEq(records[i].id, id)

\* this.contacts.findIndex(contact => contact.id === id); 0 stands for -1
FindIndex(records, id) ==
    IF SomeId(records, id)
    THEN CHOOSE i \in 1..Len(records) :
            /\ StrictEq(records[i].id, id)
            /\ \A j \in 1..(i - 1) : ~StrictEq(records[j].id, id)
    ELSE 0

\* the id addContact gives the new record
AssignedId(records, id) ==
    IF Falsy(id) THEN generateNewId(records)
    ELSE IF SomeId(records, id) THEN generateNewId(records)
    ELSE id

\* the store methods addContact invokes before save()
AddCalls(records, id) ==
    IF Falsy(id) \/ SomeId(records, id) THEN <<"addContact", "generateNewId", "save">>
    ELSE <<"addContact", "save">>

\* no field supplied
NoUpdate == [hasId |-> FALSE, id |-> Num(0), hasName |-> FALSE, name |-> Empty]
\* a faulty merge: the record is replaced by the updates, unsupplied fields are lost
MergeReplacing(record, updates) ==
    [id |-> IF updates.hasId THEN updates.id ELSE Undefined,
     name |-> IF updates.hasName THEN updates.name ELSE Empty]

\* { ...this.contacts[index], ...updates }
Merge(record, updates) ==
    [id |-> IF updates.hasId THEN updates.id ELSE record.id,
     name |-> IF updates.hasName THEN updates.name ELSE record.name]

\* a faulty filter: only the first record with the id is left out
RECURSIVE FilterOutFirst(_, _, _)
FilterOutFirst(h, refs, id) ==
    IF refs = <<>> THEN <<>>
    ELSE IF StrictEq(h[Head(refs)].id, id) THEN Tail(refs)
    ELSE <<Head(refs)>> \o FilterOutFirst(h, Tail(refs), id)

\* this.contacts.filter(contact => contact.id !== id), on the reference array
RECURSIVE FilterOut(_, _, _)
FilterOut(h, refs, id) ==
    IF refs = <<>> THEN <<>>
    ELSE IF StrictEq(h[Head(refs)].id, id) THEN FilterOut(h, Tail(refs), id)
    ELSE <<Head(refs)>> \o FilterOut(h, Tail(refs), id)

---------------------------------------------------------------------------
\* The store's methods, as functions of the store (references, heap, file) and of the
\* outcome of the file operation. Each yields the store after the call, the call's
\* result ("ok" or the error it throws), the value returned and the methods invoked.

Live == Range(contacts) \cup Range(view)

Outcome(refs, h, f, result, ret, calls) ==
    [contacts |-> refs, heap |-> h, file |-> f, result |-> result, returns |-> "void",
     ret |-> ret, calls |-> calls]

\* this.contacts = data.map(...): the file's records, each a new Contact object
loadArray ==
    LET items == Parse(file.items)
        refs == [i \in 1..Len(items) |-> NthFree(Live, i)]
        h == [r \in DOMAIN heap \cup Range(refs) |->
                IF r \in Range(refs)
                THEN items[CHOOSE i \in 1..Len(refs) : refs[i] = r]
                ELSE heap[r]]
    IN  Outcome(refs, h, file, "ok", <<>>, <<"load">>)

\* a faulty load(): a read error empties the in-memory sequence
loadClearingOnError(readOk) ==
    IF file.kind = "absent"
    THEN Outcome(<<>>, heap, file, "ok", <<>>, <<"load">>)
    ELSE IF file.kind = "corrupt" \/ ~readOk
    THEN Outcome(<<>>, heap, file, "IOFailure", <<>>, <<"load">>)
    ELSE IF file.kind = "value"
    THEN Outcome(<<>>, heap, file, "ok", <<>>, <<"load">>)
    ELSE loadArray

\* load(): readOk is whether jsonfile.readFile could read an existing file
load(readOk) ==
    IF file.kind = "absent"
    THEN Outcome(<<>>, heap, file, "ok", <<>>, <<"load">>)
    ELSE IF file.kind = "corrupt" \/ ~readOk
    THEN Outcome(contacts, heap, file, "IOFailure", <<>>, <<"load">>)
    ELSE IF file.kind = "value"
    THEN Outcome(<<>>, heap, file, "ok", <<>>, <<"load">>)
    ELSE loadArray

\* a faulty save(): the array is written as it was before the method changed it
saveStale(refs, h, outcome, calls) ==
    Outcome(refs, h, FileAfterWrite(outcome, file, Records), SaveResult(outcome),
            <<>>, calls)

\* save(), called by a method that has already changed memory to (refs, h)
save(refs, h, outcome, calls) ==
    Outcome(refs, h, FileAfterWrite(outcome, file, Deref(h, refs)), SaveResult(outcome),
            <<>>, calls)

\* getOneById(id): the matching object, or undefined (the empty sequence)
getOneById(id) ==
    LET index == FindIndex(Records, id)
    IN  IF index = 0
        THEN [Outcome(contacts, heap, file, "ok", <<>>, <<"getOneById">>)
                EXCEPT !.returns = "undefined"]
        ELSE [Outcome(contacts, heap, file, "ok", <<contacts[index]>>, <<"getOneById">>)
                EXCEPT !.returns = "record"]

\* getAllContacts(): [...this.contacts], a new array of the same objects
getAllContacts ==
    [Outcome(contacts, heap, file, "ok", contacts, <<"getAllContacts">>)
        EXCEPT !.returns = "list"]

\* a faulty addContact(): the append is undone when save() fails
addContactRollingBack(ref, id, name, outcome) ==
    LET newId == AssignedId(Records, id)
        h == [r \in DOMAIN heap \cup {ref} |->
                IF r = ref THEN Contact(newId, name) ELSE heap[r]]
    IN  IF outcome = "ok"
        THEN save(Append(contacts, ref), h, outcome, AddCalls(Records, id))
        ELSE save(contacts, heap, outcome, AddCalls(Records, id))

\* a faulty addContact(): the record is put in front (unshift for push)
addContactInFront(ref, id, name, outcome) ==
    LET newId == AssignedId(Records, id)
        h == [r \in DOMAIN heap \cup {ref} |->
                IF r = ref THEN Contact(newId, name) ELSE heap[r]]
    IN  save(<<ref>> \o contacts, h, outcome, AddCalls(Records, id))

\* addContact(newContact): newContact is the object at reference ref
addContact(ref, id, name, outcome) ==
    LET newId == AssignedId(Records, id)
        h == [r \in DOMAIN heap \cup {ref} |->
                IF r = ref THEN Contact(newId, name) ELSE heap[r]]
    IN  save(Append(contacts, ref), h, outcome, AddCalls(Records, id))

\* a faulty updateContact(): the merged record is stored but save() is not called
updateContactUnsaved(ref, id, updates, outcome) ==
    LET index == FindIndex(Records, id)
    IN  IF index = 0
        THEN Outcome(contacts, heap, file, "NotFound", <<>>, <<"updateContact">>)
        ELSE LET h == [r \in DOMAIN heap \cup {ref} |->
                         IF r = ref THEN Merge(heap[contacts[index]], updates)
                         ELSE heap[r]]
             IN  Outcome([contacts EXCEPT ![index] = ref], h, file, "ok", <<>>,
                         <<"updateContact">>)

\* updateContact(id, updates): the merged record is a new object at reference ref
updateContact(ref, id, updates, outcome) ==
    LET index == FindIndex(Records, id)
    IN  IF index = 0
        THEN Outcome(contacts, heap, file, "NotFound", <<>>, <<"updateContact">>)
        ELSE LET h == [r \in DOMAIN heap \cup {ref} |->
                         IF r = ref THEN Merge(heap[contacts[index]], updates)
                         ELSE heap[r]]
             IN  save([contacts EXCEPT ![index] = ref], h, outcome,
                      <<"updateContact", "save">>)

\* a faulty deleteContact(): the length check is missing
deleteContactUnchecked(id, outcome) ==
    save(FilterOut(heap, contacts, id), heap, outcome, <<"deleteContact", "save">>)

\* deleteContact(id)
deleteContact(id, outcome) ==
    LET kept == FilterOut(heap, contacts, id)
    IN  IF Len(kept) = Len(contacts)
        THEN Outcome(kept, heap, file, "NotFound", <<>>, <<"deleteContact">>)
        ELSE save(kept, heap, outcome, <<"deleteContact", "save">>)

---------------------------------------------------------------------------
\* Calls on the store

\* what is recorded of a call
Call(op, action, id, updates, name, out) ==
    [op |-> op, action |-> action, id |-> id, updates |-> updates, name |-> name,
     result |-> out.result, returns |-> out.returns, ret |-> Deref(out.heap, out.ret),
     calls |-> out.calls]

NoCall ==
    [op |-> "new", action |-> NoAction, id |-> Undefined, updates |-> NoUpdate,
     name |-> NoString, result |-> "ok", returns |-> "void", ret |-> <<>>, calls |-> <<>>]

\* a run either keeps no record of the call before the last one, or keeps it
NotKept == [NoCall EXCEPT !.op = "notKept"]
Remember == prev' = IF prev = NotKept THEN NotKept ELSE last

\* The store takes the state a method yields and the caller keeps the array v.
\* Objects no longer referenced are collected and the references renumbered in their
\* order of occurrence: which object is which is kept, the numbers carry no meaning.
Becomes(out, v) ==
    LET order == Distinct(out.contacts \o v)
    IN  /\ contacts' = Renumber(order, out.contacts)
        /\ view' = Renumber(order, v)
        /\ heap' = [i \in 1..Len(order) |-> out.heap[order[i]]]
        /\ file' = out.file
        /\ Remember

\* ids, names and updates callers supply
SuppliedIds == {Num(-1), Num(0), Num(1)}
LookupIds == {Num(1), Num(2), NaN}
SuppliedNames == {Alice}
SuppliedUpdates ==
    {[hasId |-> FALSE, id |-> Num(0), hasName |-> TRUE, name |-> Bob],
     [hasId |-> TRUE, id |-> Num(2), hasName |-> FALSE, name |-> Empty],
     [hasId |-> TRUE, id |-> NaN, hasName |-> TRUE, name |-> Bob]}

\* the states explored: sequences of at most MaxLen records with ids up to IdCap
Explored(out) ==
    /\ Len(out.contacts) <= MaxLen
    /\ \A i \in 1..Len(out.contacts) :
          LET id == out.heap[out.contacts[i]].id
          IN  id.t = "num" => id.v <= IdCap

Load ==
    \E readOk \in BOOLEAN :
        LET out == load(readOk)
        IN  /\ Explored(out)
            /\ Becomes(out, view)
            /\ state' = IF out.result = "ok" THEN "Loaded" ELSE state
            /\ last' = Call("load", NoAction, Undefined, NoUpdate, NoString, out)
            /\ UNCHANGED main

GetOneById ==
    \E id \in LookupIds :
        LET out == getOneById(id)
        IN  /\ Becomes(out, view)
            /\ last' = Call("getOneById", NoAction, id, NoUpdate, NoString, out)
            /\ UNCHANGED <<state, main>>

GetAllContacts ==
    LET out == getAllContacts
    IN  /\ Becomes(out, view)
        /\ last' = Call("getAllContacts", NoAction, Undefined, NoUpdate, NoString, out)
        /\ UNCHANGED <<state, main>>

AddContact ==
    \E id \in SuppliedIds, name \in SuppliedNames, outcome \in WriteOutcomes :
        LET out == addContact(NthFree(Live, 1), id, name, outcome)
        IN  /\ Explored(out)
            /\ Becomes(out, view)
            /\ last' = Call("addContact", NoAction, id, NoUpdate, Str(name), out)
            /\ UNCHANGED <<state, main>>

UpdateContact ==
    \E id \in LookupIds, updates \in SuppliedUpdates, outcome \in WriteOutcomes :
        LET out == updateContact(NthFree(Live, 1), id, updates, outcome)
        IN  /\ Explored(out)
            /\ Becomes(out, view)
            /\ last' = Call("updateContact", NoAction, id, updates, NoString, out)
            /\ UNCHANGED <<state, main>>

DeleteContact ==
    \E id \in LookupIds, outcome \in WriteOutcomes :
        LET out == deleteContact(id, outcome)
        IN  /\ Becomes(out, view)
            /\ last' = Call("deleteContact", NoAction, id, NoUpdate, NoString, out)
            /\ UNCHANGED <<state, main>>

\* contents contacts.json may have when the store is constructed
InitialFiles ==
    {Absent, Corrupt, NotArray,
     ArrayFile(<<>>),
     ArrayFile(<<Contact(Num(1), Alice)>>),
     ArrayFile(<<Contact(Num(1), Alice), Contact(Num(2), Bob)>>)}

\* new ContactsCollection(): contacts = []
Constructed ==
    /\ contacts = <<>>
    /\ heap = <<>>
    /\ view = <<>>
    /\ file \in InitialFiles
    /\ state = "Unloaded"
    /\ main = "none"
    /\ last = NoCall

Init == Constructed /\ prev = NotKept

Next ==
    \/ Load
    \/ GetOneById
    \/ GetAllContacts
    \/ AddContact
    \/ UpdateContact
    \/ DeleteContact

Spec == Init /\ [][Next]_vars

---------------------------------------------------------------------------
\* A caller that keeps what getAllContacts() returned and changes it

\* getAllContacts(), the returned array kept by the caller
KeepAllContacts ==
    LET out == getAllContacts
    IN  /\ Becomes(out, out.ret)
        /\ last' = Call("getAllContacts", NoAction, Undefined, NoUpdate, NoString, out)
        /\ UNCHANGED <<state, main>>

CallerChange(op, h, v) ==
    LET out == Outcome(contacts, h, file, "ok", <<>>, <<>>)
    IN  /\ Becomes(out, v)
        /\ last' = Call(op, NoAction, Undefined, NoUpdate, NoString, out)
        /\ UNCHANGED <<state, main>>

\* returned.push(new Contact(0, "B"))
CallerPush ==
    /\ Len(view) <= MaxLen
    /\ LET ref == NthFree(Live, 1)
       IN  CallerChange("callerPush",
                        [r \in DOMAIN heap \cup {ref} |->
                            IF r = ref THEN Contact(Num(0), Bob) ELSE heap[r]],
                        Append(view, ref))

\* returned.pop()
CallerPop ==
    /\ view # <<>>
    /\ CallerChange("callerPop", heap, SubSeq(view, 1, Len(view) - 1))

\* returned[i].name = "B", or returned[i].id = 1
CallerSetField ==
    \E i \in 1..Len(view) :
        \/ CallerChange("callerSetField", [heap EXCEPT ![view[i]].name = Bob], view)
        \/ CallerChange("callerSetField", [heap EXCEPT ![view[i]].id = Num(1)], view)

CallerOps == {"callerPush", "callerPop", "callerSetField"}

NextWithCaller ==
    \/ Load
    \/ DeleteContact
    \/ GetOneById
    \/ KeepAllContacts
    \/ CallerPush
    \/ CallerPop
    \/ CallerSetField

SpecCaller == Init /\ [][NextWithCaller]_vars

---------------------------------------------------------------------------
\* The dispatcher (ContactsController) and the command line (main)

\* a faulty check of the name: the string is not trimmed
ValidNameUntrimmed(name) == name.t = "str" /\ name.s # <<>>

\* typeof params.name === 'string' && params.name.trim() !== ''
ValidName(name) == name.t = "str" /\ Trim(name.s) # <<>>

\* a faulty processOptions(): an unsupported action is an error
processOptionsStrict(ref, action, params, outcome) ==
    IF action = Action("get")
    THEN IF IsNumberType(params.id) THEN getOneById(params.id) ELSE getAllContacts
    ELSE IF action = Action("save")
    THEN IF ~ValidName(params.name)
         THEN Outcome(contacts, heap, file, "ValidationError", <<>>, <<>>)
         ELSE addContact(ref,
                         IF IsNumberType(params.id) /\ ~IsNaN(params.id)
                         THEN params.id ELSE Num(0),
                         params.name.s, outcome)
    ELSE Outcome(contacts, heap, file, "UnsupportedAction", <<>>, <<>>)

\* processOptions(options): ref is where a new Contact would be allocated
processOptions(ref, action, params, outcome) ==
    IF action = Action("get")
    THEN IF IsNumberType(params.id) THEN getOneById(params.id) ELSE getAllContacts
    ELSE IF action = Action("save")
    THEN IF ~ValidName(params.name)
         THEN Outcome(contacts, heap, file, "ValidationError", <<>>, <<>>)
         ELSE addContact(ref,
                         IF IsNumberType(params.id) /\ ~IsNaN(params.id)
                         THEN params.id ELSE Num(0),
                         params.name.s, outcome)
    ELSE Outcome(contacts, heap, file, "ok", <<>>, <<>>)

\* what minimist hands to main(): --action, --id and --name, each possibly absent
ArgActions == {NoAction, Action("get"), Action("save"), Action("delete")}
ArgIds == {Undefined, Num(0), Num(1), Num(-1), Text}
ArgNames == {NoString, Str(Alice), Str(Empty), Str(Blank), NumberForString}
CliArgs ==
    {a \in [action : ArgActions, id : ArgIds, name : ArgNames] :
        /\ a.action # Action("save") => a.name = NoString
        /\ a.action \notin {Action("get"), Action("save")} => a.id = Undefined}

\* the options main() builds from the arguments
OptionsOf(args) ==
    [action |-> args.action,
     params |-> [id |-> IF ~Falsy(args.id) THEN ToNumber(args.id) ELSE Undefined,
                 name |-> args.name]]

\* a process starts: new ContactsController()
MainStart ==
    /\ main \in {"done", "failed"}
    /\ main' = "start"
    /\ contacts' = <<>>
    /\ heap' = <<>>
    /\ view' = <<>>
    /\ state' = "Unloaded"
    /\ last' = NoCall
    /\ Remember
    /\ UNCHANGED file

\* a faulty main(): a failure of init() is not allowed to stop the flow
MainInitUnchecked ==
    /\ main = "start"
    /\ \E readOk \in BOOLEAN :
          LET out == load(readOk)
          IN  /\ Explored(out)
              /\ Becomes(out, view)
              /\ state' = IF out.result = "ok" THEN "Loaded" ELSE state
              /\ main' = "ready"
              /\ last' = Call("init", NoAction, Undefined, NoUpdate, NoString, out)

\* await controller.init()
MainInit ==
    /\ main = "start"
    /\ \E readOk \in BOOLEAN :
          LET out == load(readOk)
          IN  /\ Explored(out)
              /\ Becomes(out, view)
              /\ state' = IF out.result = "ok" THEN "Loaded" ELSE state
              /\ main' = IF out.result = "ok" THEN "ready" ELSE "failed"
              /\ last' = Call("init", NoAction, Undefined, NoUpdate, NoString, out)

\* const result = await controller.processOptions(options); console.log(result)
MainProcessOptions ==
    /\ main = "ready"
    /\ \E args \in CliArgs, outcome \in WriteOutcomes :
          LET options == OptionsOf(args)
              out == processOptions(NthFree(Live, 1), options.action, options.params,
                                    outcome)
          IN  /\ Explored(out)
              /\ Becomes(out, view)
              /\ main' = IF out.result = "ok" THEN "done" ELSE "failed"
              /\ last' = Call("processOptions", options.action, options.params.id,
                              NoUpdate, options.params.name, out)
              /\ UNCHANGED state

\* the command line is run against an empty or absent contacts.json
InitCli ==
    /\ contacts = <<>>
    /\ heap = <<>>
    /\ view = <<>>
    /\ file \in {Absent, ArrayFile(<<>>)}
    /\ state = "Unloaded"
    /\ main = "start"
    /\ last = NoCall
    /\ prev = NotKept

NextCli ==
    \/ MainStart
    \/ MainInit
    \/ MainProcessOptions

SpecCli == InitCli /\ [][NextCli]_vars

---------------------------------------------------------------------------
\* Sequences of addContact() calls on one store

\* sequences of addContact() calls are followed one record further
AddsLen == MaxLen + 1

ExploredAdds(out) ==
    /\ Len(out.contacts) <= AddsLen
    /\ \A i \in 1..Len(out.contacts) :
          LET id == out.heap[out.contacts[i]].id
          IN  id.t = "num" => id.v <= AddsLen

\* the ids supplied: negative, zero, present or fresh
AddedIds == SuppliedIds \cup {Num(AddsLen)}

\* addContact(new Contact(id, name))
AddNewContact ==
    \E id \in AddedIds, name \in SuppliedNames, outcome \in WriteOutcomes :
        LET out == addContact(NthFree(Live, 1), id, name, outcome)
        IN  /\ ExploredAdds(out)
            /\ Becomes(out, view)
            /\ last' = Call("addContact", NoAction, id, NoUpdate, Str(name), out)
            /\ UNCHANGED <<state, main>>

NextAdds ==
    \/ Load
    \/ AddNewContact

SpecAdds == Init /\ [][NextAdds]_vars

\* addContact(list[i]): the caller passes an object it holds, one getAllContacts()
\* returned, which may be an object of the collection
AddContactAgain ==
    \E i \in 1..Len(view), outcome \in WriteOutcomes :
        LET newContact == heap[view[i]]
            out == addContact(view[i], newContact.id, newContact.name, outcome)
        IN  /\ Explored(out)
            /\ Becomes(out, view)
            /\ last' = Call("addContact", NoAction, newContact.id, NoUpdate,
                            Str(newContact.name), out)
            /\ UNCHANGED <<state, main>>

NextAddsHeld ==
    \/ Load
    \/ AddContact
    \/ KeepAllContacts
    \/ AddContactAgain

SpecAddsHeld == Init /\ [][NextAddsHeld]_vars

---------------------------------------------------------------------------
\* Runs that keep the call before the last one

\* updateContact(id, { name: "B" })
RenameContact ==
    \E id \in LookupIds, outcome \in WriteOutcomes :
        LET updates == [NoUpdate EXCEPT !.hasName = TRUE, !.name = Bob]
            out == updateContact(NthFree(Live, 1), id, updates, outcome)
        IN  /\ Explored(out)
            /\ Becomes(out, view)
            /\ last' = Call("updateContact", NoAction, id, updates, NoString, out)
            /\ UNCHANGED <<state, main>>

InitKept == Constructed /\ prev = NoCall

NextKept ==
    \/ Load
    \/ AddContact
    \/ RenameContact
    \/ DeleteContact

SpecKept == InitKept /\ [][NextKept]_vars

\* load() of a file of up to AddsLen records
LoadLong ==
    \E readOk \in BOOLEAN :
        LET out == load(readOk)
        IN  /\ ExploredAdds(out)
            /\ Becomes(out, view)
            /\ state' = IF out.result = "ok" THEN "Loaded" ELSE state
            /\ last' = Call("load", NoAction, Undefined, NoUpdate, NoString, out)
            /\ UNCHANGED main

\* files of three records: ids pairwise distinct, and an id carried twice, as the
\* store writes it after updateContact(3, {id: 2})
LongFiles ==
    {ArrayFile(<<Contact(Num(1), Alice), Contact(Num(2), Bob), Contact(Num(-1), Alice)>>),
     ArrayFile(<<Contact(Num(2), Alice), Contact(Num(1), Alice), Contact(Num(2), Bob)>>)}

\* new ContactsCollection() on such a file
InitDeletes ==
    /\ contacts = <<>>
    /\ heap = <<>>
    /\ view = <<>>
    /\ file \in LongFiles
    /\ state = "Unloaded"
    /\ main = "none"
    /\ last = NoCall
    /\ prev = NoCall

NextDeletes ==
    \/ LoadLong
    \/ DeleteContact

SpecDeletes == InitDeletes /\ [][NextDeletes]_vars

---------------------------------------------------------------------------
\* One ContactsController serving a sequence of requests

\* the requests: the options main() can build
Requests == {OptionsOf(args) : args \in CliArgs}

\* controller.init()
ControllerInit ==
    \E readOk \in BOOLEAN :
        LET out == load(readOk)
        IN  /\ Explored(out)
            /\ Becomes(out, view)
            /\ state' = IF out.result = "ok" THEN "Loaded" ELSE state
            /\ last' = Call("init", NoAction, Undefined, NoUpdate, NoString, out)
            /\ UNCHANGED main

\* controller.processOptions(options)
ControllerProcessOptions ==
    \E options \in Requests, outcome \in WriteOutcomes :
        LET out == processOptions(NthFree(Live, 1), options.action, options.params,
                                  outcome)
        IN  /\ ExploredAdds(out)
            /\ Becomes(out, view)
            /\ last' = Call("processOptions", options.action, options.params.id,
                            NoUpdate, options.params.name, out)
            /\ UNCHANGED <<state, main>>

NextController ==
    \/ ControllerInit
    \/ ControllerProcessOptions

SpecController == Init /\ [][NextController]_vars

---------------------------------------------------------------------------
\* Properties of the Record Store

Mutators == {"addContact", "updateContact", "deleteContact"}

\* the largest element of a non-empty set of integers
MaxOf(S) == CHOOSE x \in S : \A y \in S : y <= x

\* the numbers the ids of a sequence of records stand for
IdNumbers(records) == {ToNumber(records[i].id) : i \in 1..Len(records)}

\* C1: in every reachable state of the store the ids of the in-memory sequence are
\* pairwise distinct.
C1_IdsPairwiseDistinct ==
    \A i, j \in 1..Len(contacts) :
        i # j => ~StrictEq(Records[i].id, Records[j].id)

\* C2: whenever addContact, updateContact or deleteContact returns success, save() was
\* the last thing the call did and the file holds the serialized in-memory sequence,
\* record for record and in order.
C2_FileHoldsMemoryAfterSuccess ==
    (last.op \in Mutators /\ last.result = "ok") =>
        /\ file = ArrayFile(Stringify(Records))
        /\ last.calls[Len(last.calls)] = "save"

C2_Witness ==
    /\ last.op = "updateContact"
    /\ last.result = "ok"
    /\ Len(contacts) = 2
    /\ Records[1].name # Records[2].name

\* C3: updateContact(id, updates) and deleteContact(id) with an id no record carries fail
\* with NotFound, leave the in-memory sequence and the file as they were and do not
\* call save().
C3_NotFoundLeavesStore ==
    [][(last'.op \in {"updateContact", "deleteContact"} /\ ~SomeId(Records, last'.id)) =>
          /\ last'.result = "NotFound"
          /\ Records' = Records
          /\ file' = file
          /\ "save" \notin Range(last'.calls)]_vars

C3_Witness ==
    /\ last.op = "deleteContact"
    /\ last.result = "NotFound"
    /\ Len(contacts) = 2

\* (max existing id) + 1, or 1 if the collection is empty
StatedNewId(records) ==
    IF records = <<>> THEN Num(1)
    ELSE Num(MaxOf({n.v : n \in IdNumbers(records)}) + 1)

\* one more than the largest of 0 and the existing ids; NaN if an existing id is NaN
FreshId(records) ==
    IF \E n \in IdNumbers(records) : n.t = "nan" THEN NaN
    ELSE Num(MaxOf({0} \cup {n.v : n \in IdNumbers(records)}) + 1)

C6_Stated ==
    [][last'.op = "load" =>
          /\ file.kind = "absent" => (last'.result = "ok" /\ Records' = <<>>)
          /\ file.kind \in {"corrupt", "value"} =>
                (last'.result = "IOFailure" /\ Records' = Records)]_vars

\* C6 amended: load() succeeds with an empty sequence when the file is absent; it fails
\* with IOFailure, memory and store state as before, when the file cannot be read or
\* parsed; a file that parses to a JSON value that is no array loads as the empty
\* sequence.
C6_LoadOutcomes ==
    [][last'.op = "load" =>
          /\ file' = file
          /\ file.kind = "absent" => (last'.result = "ok" /\ Records' = <<>>)
          /\ file.kind = "corrupt" => last'.result = "IOFailure"
          /\ last'.result = "IOFailure" => (Records' = Records /\ state' = state)
          /\ (file.kind = "value" /\ last'.result = "ok") => Records' = <<>>
          /\ (file.kind = "array" /\ last'.result = "ok") => Records' = Parse(file.items)]_vars

C6_Witness ==
    /\ last.op = "load"
    /\ last.result = "IOFailure"
    /\ file.kind = "corrupt"
    /\ Len(contacts) = 2

\* the sequence a file stands for: an absent file is the empty collection
OnDisk(f) == IF f.kind = "array" THEN f.items ELSE <<>>

\* C7 as stated, for a store that has been loaded: when save() fails inside addContact, addContact fails with that error,
\* the record stays appended, the file keeps its previous contents, and memory and disk
\* differ by exactly that record.
C7_Stated ==
    [][(state = "Loaded" /\ last'.op = "addContact" /\ last'.result # "ok") =>
          /\ last'.result = "IOFailure"
          /\ Len(Records') = Len(Records) + 1
          /\ SubSeq(Records', 1, Len(Records)) = Records
          /\ file' = file
          /\ file'.kind \in {"array", "absent"}
          /\ Stringify(Records') =
                Append(OnDisk(file'), Stringify(Records')[Len(Records')])]_vars

\* C7 amended: when save() fails inside addContact, addContact fails with that error
\* and the record stays appended; the file is not rewritten with the new sequence: it
\* keeps its previous contents or is left unreadable by the interrupted write. Memory and
\* disk differ by exactly that record when they agreed before the call and the file was
\* left as it was.
C7_FailedSaveKeepsAppend ==
    [][(last'.op = "addContact" /\ last'.result # "ok") =>
          /\ last'.result = "IOFailure"
          /\ Len(Records') = Len(Records) + 1
          /\ SubSeq(Records', 1, Len(Records)) = Records
          /\ Records'[Len(Records')].name = last'.name.s
          /\ file' \in {file, Corrupt}
          /\ (file' = file /\ file.kind = "array" /\ file.items = Stringify(Records)) =>
                Stringify(Records') =
                    Append(OnDisk(file'), Stringify(Records')[Len(Records')])]_vars

C7_Witness ==
    /\ last.op = "addContact"
    /\ last.result = "IOFailure"
    /\ file.kind = "array"
    /\ Len(contacts) = 2
    /\ file.items = Stringify(SubSeq(Records, 1, 1))

---------------------------------------------------------------------------
\* Properties of the copy getAllContacts() returns

\* C5: nothing the caller does to the value getAllContacts() returned (adding or
\* removing elements, changing a field of a returned record) changes the store's
\* sequence, nor therefore what a later getAllContacts() or getOneById() returns.
C5_Stated == [][last'.op \in CallerOps => Records' = Records]_vars

---------------------------------------------------------------------------
\* Properties of the dispatcher

\* a name that is no string, or a string of nothing but whitespace
BlankName(name) == name.t # "str" \/ \A i \in 1..Len(name.s) : name.s[i] = " "

\* C8: a save request whose name is absent, not a string, empty or whitespace-only fails
\* with ValidationError without any store method being called; memory and file are as
\* before.
C8_InvalidNameRejected ==
    [][(/\ last'.op = "processOptions"
        /\ last'.action = Action("save")
        /\ BlankName(last'.name)) =>
          /\ last'.result = "ValidationError"
          /\ last'.calls = <<>>
          /\ Records' = Records
          /\ file' = file]_vars

C8_Witness ==
    /\ last.op = "processOptions"
    /\ last.action = Action("save")
    /\ last.name = Str(Blank)
    /\ last.result = "ValidationError"
    /\ Len(contacts) = 2

\* C9: a get request returns the full listing whenever its id is absent or not a valid
\* number, and a single record or not-found only when a valid numeric id is supplied.
C9_Stated ==
    (last.op = "processOptions" /\ last.action = Action("get")) =>
        /\ last.id.t # "num" => last.returns = "list"
        /\ last.returns \in {"record", "undefined"} => last.id.t = "num"

\* C10: starting from an empty or absent file, after any sequence of requests every
\* record of the collection has a positive integer id.
C10_IdsPositive ==
    \A i \in 1..Len(contacts) : Records[i].id.t = "num" /\ Records[i].id.v > 0

---------------------------------------------------------------------------
\* Properties of sequences of addContact() calls

\* C11: starting from a collection whose ids are pairwise distinct (the empty one
\* included), after any sequence of addContact calls with any supplied ids (zero, fresh
\* or already present) no two records of the collection share an id.
C11_NoSharedIdAfterAdds ==
    state = "Loaded" =>
        ~\E i, j \in 1..Len(Records) :
            i < j /\ StrictEq(Records[i].id, Records[j].id)

\* C12: in a sequence of addContact calls with no deleteContact in between, each id
\* produced by id generation (for a record supplied with a zero/unset or duplicate id)
\* is a number greater than every id then in the collection, the ids generated before
\* and the ids supplied explicitly in between among them: the generated ids are
\* strictly increasing.
C12_GeneratedIdsIncrease ==
    [][(last'.op = "addContact" /\ "generateNewId" \in Range(last'.calls)) =>
          LET newId == Records'[Len(Records')].id
          IN  /\ newId.t = "num"
              /\ \A i \in 1..Len(Records) :
                    /\ Records[i].id.t = "num"
                    /\ Records[i].id.v < newId.v
                    /\ Records'[i] = Records[i]]_vars

C12_Witness ==
    /\ last.op = "addContact"
    /\ "generateNewId" \in Range(last.calls)
    /\ Len(Records) = 3
    /\ Records[1].id = Num(1)
    /\ Records[2].id = Num(-1)
    /\ Records[3].id = Num(2)

---------------------------------------------------------------------------
\* Properties of the load/save cycle

\* C13: round trip. For any in-memory sequence of records, after a successful save()
\* (the last step of a successful add, update or delete) a load() that reads the file,
\* as a fresh store instance does, yields a sequence equal to the saved one, field for
\* field and in the same order.
C13_RoundTrip ==
    (state = "Loaded" /\ last.op \in Mutators /\ last.result = "ok") =>
        LET loaded == load(TRUE)
        IN  /\ loaded.result = "ok"
            /\ Deref(loaded.heap, loaded.contacts) = Records

---------------------------------------------------------------------------
\* Properties of updateContact and deleteContact

\* C14: updateContact(id, partialUpdates) on a present id changes only the supplied
\* fields of the matching record (the first that carries the id): the record keeps its
\* position, its unsupplied fields keep their values and every other record is
\* unchanged, whether or not the save that follows succeeds.
C14_UpdateChangesSuppliedFields ==
    [][(last'.op = "updateContact" /\ SomeId(Records, last'.id)) =>
          \E index \in 1..Len(Records) :
              /\ StrictEq(Records[index].id, last'.id)
              /\ \A j \in 1..(index - 1) : ~StrictEq(Records[j].id, last'.id)
              /\ last'.result \in {"ok", "IOFailure"}
              /\ Len(Records') = Len(Records)
              /\ \A j \in 1..Len(Records) : j # index => Records'[j] = Records[j]
              /\ Records'[index].id =
                    IF last'.updates.hasId THEN last'.updates.id ELSE Records[index].id
              /\ Records'[index].name =
                    IF last'.updates.hasName THEN last'.updates.name
                    ELSE Records[index].name]_vars

C14_Witness ==
    /\ last.op = "updateContact"
    /\ last.id = Num(2)
    /\ last.updates.hasName
    /\ ~last.updates.hasId
    /\ Records = <<Contact(Num(1), Alice), Contact(Num(2), Bob)>>
    /\ file = ArrayFile(<<Contact(Num(1), Alice)>>)

\* C15: deleteContact(id) on a present id removes exactly the records with that id (one
\* record when the ids are pairwise distinct) and leaves all other records present in
\* their original relative order, whether or not the save that follows succeeds; a
\* deleteContact(id) that immediately follows a deleteContact of the same id fails with
\* NotFound and changes nothing.
C15_DeleteRemovesTheRecord ==
    [][/\ (last'.op = "deleteContact" /\ SomeId(Records, last'.id)) =>
             /\ last'.result \in {"ok", "IOFailure"}
             /\ Records' = SelectSeq(Records, LAMBDA r : ~StrictEq(r.id, last'.id))
             /\ (\A i, j \in 1..Len(Records) :
                    i # j => ~StrictEq(Records[i].id, Records[j].id))
                  => Len(Records') = Len(Records) - 1
       /\ (last.op = "deleteContact" /\ last'.op = "deleteContact" /\ last'.id = last.id) =>
             /\ last'.result = "NotFound"
             /\ Records' = Records
             /\ file' = file]_vars

C15_Witness ==
    /\ prev.op = "deleteContact"
    /\ prev.result = "ok"
    /\ prev.id = Num(2)
    /\ last.op = "deleteContact"
    /\ last.id = Num(2)
    /\ last.result = "NotFound"
    /\ Records = <<Contact(Num(1), Alice), Contact(Num(-1), Alice)>>
    /\ file = ArrayFile(Records)

---------------------------------------------------------------------------
\* Properties of the command line flow and of the dispatcher

\* C16: in the CLI flow the dispatcher's request is processed only right after init()'s
\* load() has completed successfully, with the store Loaded; when load() fails no
\* request is dispatched.
C16_LoadedBeforeDispatch ==
    [][/\ last'.op = "processOptions" =>
             /\ last.op = "init"
             /\ last.result = "ok"
             /\ state = "Loaded"
       /\ (last.op = "init" /\ last.result # "ok") =>
             /\ last'.op \notin {"processOptions", "init"}
             /\ last'.calls = <<>>]_vars

C16_Witness ==
    /\ last.op = "processOptions"
    /\ last.action = Action("get")
    /\ last.returns = "list"
    /\ last.ret # <<>>
    /\ state = "Loaded"
    /\ main = "done"

C20_DispatcherAppendOnly ==
    [][(state = "Loaded" /\ last'.op = "processOptions") =>
          /\ Len(Records) <= Len(Records')
          /\ SubSeq(Records', 1, Len(Records)) = Records
          /\ IF last'.action = Action("save") /\ last'.result # "ValidationError"
             THEN /\ Len(Records') = Len(Records) + 1
                  /\ Records'[Len(Records')].name = last'.name.s
                  /\ last'.result \in {"ok", "IOFailure"}
             ELSE Records' = Records]_vars

C20_Witness ==
    /\ state = "Loaded"
    /\ last.op = "processOptions"
    /\ last.action = Action("save")
    /\ last.result = "IOFailure"
    /\ Len(Records) = 3
    /\ file.kind = "array"
    /\ Len(file.items) = 1

---------------------------------------------------------------------------
\* Properties of runs in which one call follows another

\* the last call was a deleteContact that removed the record with the largest id
DeletedMaximum ==
    /\ last.op = "deleteContact"
    /\ last.result # "NotFound"
    /\ \A i \in 1..Len(Records) : ToNumber(Records[i].id).v < last.id.v

Diverged == file # ArrayFile(Stringify(Records))

\* C19: divergence after a failed save is healed by the next successful mutation.
\* When memory and file differ, after any number of add/update/delete calls whose save
\* failed, an add, update or delete that succeeds applies its own change to the whole
\* in-memory sequence, the changes of the failed calls included, and leaves the file
\* equal to that sequence.
C19_SuccessHealsDivergence ==
    [][(Diverged /\ last'.op \in Mutators /\ last'.result = "ok") =>
          /\ file' = ArrayFile(Stringify(Records'))
          /\ last'.op = "addContact" =>
                /\ Len(Records') = Len(Records) + 1
                /\ SubSeq(Records', 1, Len(Records)) = Records
          /\ last'.op = "updateContact" =>
                /\ Len(Records') = Len(Records)
                /\ \A i \in 1..Len(Records) :
                      Records'[i] # Records[i] => StrictEq(Records[i].id, last'.id)
          /\ last'.op = "deleteContact" =>
                Records' = SelectSeq(Records, LAMBDA r : ~StrictEq(r.id, last'.id))]_vars

C19_Witness ==
    /\ prev.op = "addContact"
    /\ prev.result = "IOFailure"
    /\ last.op = "updateContact"
    /\ last.result = "ok"
    /\ state = "Loaded"
    /\ Records = <<Contact(Num(1), Alice), Contact(Num(2), Bob)>>
    /\ file = ArrayFile(Records)

====
